---- MODULE Spec2Model ----
(***************************************************************************)
(* Model of the telemetry core of replay-cli:                              *)
(*   - retry / linearBackoffRetry / concurrentWithRetry                    *)
(*       (scripts/pkg-build/src/plugins/resolveErrors.ts)                  *)
(*   - groupStepsByTest (cypress step aggregation, unnamed/part_001)       *)
(*                                                                         *)
(* Spec     : one call of concurrentWithRetry on the JavaScript event      *)
(*            loop, every task wrapped by linearBackoffRetry.              *)
(* SpecAgg  : one call of groupStepsByTest on a bounded list of events.    *)
(* SpecRetry: one call of retry with either backoff strategy.              *)
(* SpecPlugin: the wrapped on of the cypress plugin                        *)
(*            (packages/cypress/src/index.ts).                             *)
(***************************************************************************)
EXTENDS Integers, Sequences, FiniteSets, TLC

VARIABLES
    numTasks,          \* tasks.length
    concurrencyLimit,  \* the concurrencyLimit argument
    pc,                \* position of the concurrentWithRetry body
    taskIndex,         \* let taskIndex
    activePromises,    \* let activePromises (task indices name the promises)
    results,           \* let results (a sparse array: index -> value)
    awaited,           \* the promises handed to Promise.race / Promise.all
    awaitState,        \* state of the Promise.race / Promise.all promise
    thrown,            \* the error concurrentWithRetry rejected with
    task,              \* per task: the retry call and the taskPromise
    steps,             \* groupStepsByTest: the steps argument
    agg,               \* groupStepsByTest: the locals of the call
    rt,                \* retry: the arguments and locals of one call
    plug               \* cypress plugin: the closure of the wrapped on

dispVars == <<numTasks, concurrencyLimit, pc, taskIndex, activePromises,
              results, awaited, awaitState, thrown, task>>
aggVars == <<steps, agg>>
retryVars == <<rt>>
pluginVars == <<plug>>
vars == <<dispVars, aggVars, retryVars, pluginVars>>

(***************************************************************************)
(* Bounds of the model.                                                    *)
(***************************************************************************)
MaxTasks == 3
MaxLimit == 2

(***************************************************************************)
(* concurrentWithRetry and retry.                                          *)
(***************************************************************************)
MAX_ATTEMPTS == 5

None == "none"

\* The value the k-th invocation of tasks[i] resolves with, and the error it
\* rejects with: every invocation produces its own value or error.
\* No value or error yet: of the shape of Val and Err.
NoOutcome == <<"none", 0, 0>>
Val(i, k) == <<"value", i, k>>
Err(i, k) == <<"error", i, k>>
Unreachable == <<"error", "ShouldBeUnreachable">>

Indices == 0 .. (numTasks - 1)

\* A task that has not been queued yet.
IdleTask ==
    [rpc |-> "idle", currentAttempt |-> 0, calls |-> 0, failed |-> 0,
     succeededAt |-> 0, onFailCalls |-> 0, outcome |-> NoOutcome, promise |-> "none",
     launches |-> 0]

\* results.length of the sparse JavaScript array.
ResultsLength ==
    IF DOMAIN results = {} THEN 0
    ELSE (CHOOSE m \in DOMAIN results : \A j \in DOMAIN results : j <= m) + 1

\* Tasks whose retry call has been started and has not returned or thrown.
InFlight == {i \in Indices : task[i].rpc \in {"attempt", "waiting"}}

\* A promise job (microtask) is queued: a .finally callback or the
\* continuation of the await in concurrentWithRetry.
FinallyPending(i) == task[i].rpc \in {"returned", "threw"} /\ task[i].promise = "pending"
ResumePending == pc \in {"race", "all"} /\ awaitState # "pending"
MicrotaskPending == ResumePending \/ \E i \in Indices : FinallyPending(i)

\* concurrentWithRetry runs synchronously between two awaits: nothing else
\* runs while it is inside the while loop.
MutThreadFree == pc \notin {"loop", "failed"}
ThreadFree == pc # "loop"

InitDisp ==
    /\ numTasks \in 0 .. MaxTasks
    /\ concurrencyLimit \in 0 .. MaxLimit
    /\ pc = "loop"
    /\ taskIndex = 0
    /\ activePromises = << >>
    /\ results = << >>
    /\ awaited = {}
    /\ awaitState = "none"
    /\ thrown = NoOutcome
    /\ task = [i \in 0 .. (numTasks - 1) |-> IdleTask]

\* retry, first iteration of the loop: currentAttempt++ and fn() is called.
RetryStart(t) ==
    [t EXCEPT !.rpc = "attempt", !.currentAttempt = 1, !.calls = 1]

\* The guard of the dispatch branch: activePromises.length < concurrencyLimit.
MutSlotFree == Len(activePromises) <= concurrencyLimit
SlotFree == Len(activePromises) < concurrencyLimit

\* while (taskIndex < tasks.length), then-branch: executeTask(taskIndex) is
\* called (retry starts and invokes the task), the promise is pushed.
Launch ==
    /\ pc = "loop"
    /\ taskIndex < numTasks
    /\ SlotFree
    /\ task' = [task EXCEPT ![taskIndex] =
                   [RetryStart(@) EXCEPT !.promise = "pending", !.launches = @ + 1]]
    /\ activePromises' = Append(activePromises, taskIndex)
    /\ taskIndex' = taskIndex + 1
    /\ UNCHANGED <<numTasks, concurrencyLimit, pc, results, awaited, awaitState, thrown>>

\* else-branch: await Promise.race(activePromises).  Every promise of
\* activePromises is pending (a settled one has been filtered out before).
AwaitRace ==
    /\ pc = "loop"
    /\ taskIndex < numTasks
    /\ ~ SlotFree
    /\ pc' = "race"
    /\ awaited' = {activePromises[k] : k \in 1 .. Len(activePromises)}
    /\ awaitState' = "pending"
    /\ UNCHANGED <<numTasks, concurrencyLimit, taskIndex, activePromises, results, thrown, task>>

\* The promise the loop exit waits for: Promise.all(activePromises).
MutAllOf(ps) == "fulfilled"
AllOf(ps) == IF ps = {} THEN "fulfilled" ELSE "pending"

\* Loop exit: await Promise.all(activePromises).
AwaitAll ==
    /\ pc = "loop"
    /\ taskIndex >= numTasks
    /\ pc' = "all"
    /\ awaited' = {activePromises[k] : k \in 1 .. Len(activePromises)}
    /\ awaitState' = AllOf(awaited')
    /\ UNCHANGED <<numTasks, concurrencyLimit, taskIndex, activePromises, results, thrown, task>>

\* The continuation of the await: a rejection leaves concurrentWithRetry,
\* a fulfilled race re-enters the loop, a fulfilled all returns results.
Resume ==
    /\ ResumePending
    /\ IF awaitState = "rejected"
       THEN pc' = "failed"
       ELSE pc' = (IF pc = "race" THEN "loop" ELSE "returned")
    /\ awaitState' = "none"
    /\ awaited' = {}
    /\ UNCHANGED <<numTasks, concurrencyLimit, taskIndex, activePromises, results, thrown, task>>

\* retry: `return await fn()` with fn() fulfilled with v.
MutRetryReturn(t, v) ==
    IF t.currentAttempt <= MAX_ATTEMPTS
    THEN [t EXCEPT !.rpc = "attempt", !.currentAttempt = @ + 1, !.calls = @ + 1]
    ELSE [t EXCEPT !.rpc = "threw", !.outcome = <<"error", "ShouldBeUnreachable">>]
RetryReturn(t, v) == [t EXCEPT !.rpc = "returned", !.outcome = v]

\* executeTask: results[taskIndex] = result.
Store(i, v) == (i :> v) @@ results

\* The invocation in flight of tasks[i] fulfils: retry returns its value and
\* executeTask stores it.  (succeededAt records the attempt that succeeded.)
AttemptSucceeds(i) ==
    /\ ThreadFree
    /\ task[i].rpc = "attempt"
    /\ LET t == RetryReturn(task[i], Val(i, task[i].currentAttempt)) IN
         /\ task' = [task EXCEPT ![i] =
                        [t EXCEPT !.succeededAt =
                            IF @ = 0 THEN task[i].currentAttempt ELSE @]]
         /\ results' = IF t.rpc = "returned" THEN Store(i, t.outcome) ELSE results
    /\ UNCHANGED <<numTasks, concurrencyLimit, pc, taskIndex, activePromises,
                   awaited, awaitState, thrown>>

\* retry, the catch block: onFail(e), then either throw e or wait.
MutRetryCatch(t, e) ==
    IF t.currentAttempt = MAX_ATTEMPTS - 1
    THEN [t EXCEPT !.onFailCalls = @ + 1, !.rpc = "threw", !.outcome = e]
    ELSE [t EXCEPT !.onFailCalls = @ + 1, !.rpc = "waiting"]
RetryCatch(t, e) ==
    IF t.currentAttempt = MAX_ATTEMPTS
    THEN [t EXCEPT !.onFailCalls = @ + 1, !.rpc = "threw", !.outcome = e]
    ELSE [t EXCEPT !.onFailCalls = @ + 1, !.rpc = "waiting"]

\* The invocation in flight of tasks[i] rejects.  (failed counts the
\* rejected invocations.)
AttemptFails(i) ==
    /\ ThreadFree
    /\ task[i].rpc = "attempt"
    /\ task' = [task EXCEPT ![i] =
                   [RetryCatch(@, Err(i, @.currentAttempt)) EXCEPT !.failed = @ + 1]]
    /\ UNCHANGED <<numTasks, concurrencyLimit, pc, taskIndex, activePromises,
                   results, awaited, awaitState, thrown>>

\* retry, after waitForTime: the loop condition, currentAttempt++ and fn().
RetryNext(t) ==
    IF t.currentAttempt <= MAX_ATTEMPTS
    THEN [t EXCEPT !.rpc = "attempt", !.currentAttempt = @ + 1, !.calls = @ + 1]
    ELSE [t EXCEPT !.rpc = "threw", !.outcome = Unreachable]

\* The timer of waitForTime fires: a macrotask, it runs only when no promise
\* job is queued.
BackoffElapsed(i) ==
    /\ ThreadFree
    /\ ~ MicrotaskPending
    /\ task[i].rpc = "waiting"
    /\ task' = [task EXCEPT ![i] = RetryNext(@)]
    /\ UNCHANGED <<numTasks, concurrencyLimit, pc, taskIndex, activePromises,
                   results, awaited, awaitState, thrown>>

\* activePromises.filter(promise => promise !== taskPromise)
Without(ps, i) == SelectSeq(ps, LAMBDA p : p # i)

\* What the settling of taskPromise i does to the awaited race / all promise.
MutSettleUnseen(i, how) == awaitState
MutSettle(i, how) ==
    IF awaitState # "pending" \/ i \notin awaited THEN awaitState
    ELSE IF how = "rejected" THEN "rejected"
    ELSE IF \A j \in awaited \ {i} : task[j].promise = "fulfilled" THEN "fulfilled"
    ELSE "pending"
Settle(i, how) ==
    IF awaitState # "pending" \/ i \notin awaited THEN awaitState
    ELSE IF how = "rejected" THEN "rejected"
    ELSE IF pc = "race" THEN "fulfilled"
    ELSE IF \A j \in awaited \ {i} : task[j].promise = "fulfilled" THEN "fulfilled"
    ELSE "pending"

\* The .finally callback of taskPromise: the promise leaves activePromises
\* and settles the way executeTask settled.
Finally(i) ==
    /\ ThreadFree
    /\ FinallyPending(i)
    /\ LET how == IF task[i].rpc = "returned" THEN "fulfilled" ELSE "rejected" IN
         /\ task' = [task EXCEPT ![i].promise = how]
         /\ awaitState' = Settle(i, how)
         /\ thrown' = IF awaitState = "pending" /\ awaitState' = "rejected"
                      THEN task[i].outcome ELSE thrown
    /\ activePromises' = Without(activePromises, i)
    /\ UNCHANGED <<numTasks, concurrencyLimit, pc, taskIndex, results, awaited>>

(***************************************************************************)
(* groupStepsByTest.                                                       *)
(*                                                                         *)
(* A StepEvent is a record                                                 *)
(*   [event, test, file, timestamp, command, category, hook, error]        *)
(* test is the title path, timestamp a fixed-width string of digits (the   *)
(* digits of an ISO timestamp), command is << >> (absent) or <<c>> with    *)
(* c = [id, groupId, commandId, name, args]; absent strings are None.      *)
(* A Test is [title, path, result, relativePath, relativeStartTime,        *)
(* duration, steps], duration being << >> (unset) or <<d>>.  Objects the code holds by reference are  *)
(* named by their position: currentTest is an index of tests (0 is         *)
(* undefined), a stepStack item names its step by test and step index.     *)
(***************************************************************************)
AFTER_EACH_HOOK == "\"after each\" hook"

HasCmd(step) == step.command # << >>
Cmd(step) == step.command[1]

\* step.command?.id and step.command?.groupId
CmdId(step) == IF HasCmd(step) THEN Cmd(step).id ELSE None
CmdGroupId(step) == IF HasCmd(step) THEN Cmd(step).groupId ELSE None

\* Command arguments: a string, null, or an object; an object may carry
\* log: false, other properties, or nothing ({}).
ArgText == "text"
ArgNull == "null"
ArgNoLog == "{log:false}"
ArgData == "{data}"
ArgEmpty == "{}"
IsObject(a) == a \in {ArgNoLog, ArgData, ArgEmpty}

\* new Date(timestamp).getTime(): the number the digits denote.
RECURSIVE toTime(_)
toTime(timestamp) ==
    IF timestamp = << >> THEN 0
    ELSE 10 * toTime(SubSeq(timestamp, 1, Len(timestamp) - 1))
            + timestamp[Len(timestamp)]

toRelativeTime(timestamp, startTime) == toTime(timestamp) - startTime

\* a.localeCompare(b) on digit strings: -1, 0 or 1, character by character.
RECURSIVE localeCompare(_, _)
localeCompare(a, b) ==
    IF a = << >> /\ b = << >> THEN 0
    ELSE IF a = << >> THEN -1
    ELSE IF b = << >> THEN 1
    ELSE IF Head(a) < Head(b) THEN -1
    ELSE IF Head(a) > Head(b) THEN 1
    ELSE localeCompare(Tail(a), Tail(b))

\* Array.prototype.sort with the timestamp comparator: a stable sort, an
\* element goes behind every element that does not compare greater.
RECURSIVE InsertSorted(_, _)
InsertSorted(sorted, e) ==
    IF sorted = << >> THEN <<e>>
    ELSE IF localeCompare(sorted[Len(sorted)].timestamp, e.timestamp) <= 0
    THEN Append(sorted, e)
    ELSE Append(InsertSorted(SubSeq(sorted, 1, Len(sorted) - 1), e),
                sorted[Len(sorted)])

RECURSIVE SortFrom(_, _)
SortFrom(sorted, rest) ==
    IF rest = << >> THEN sorted
    ELSE SortFrom(InsertSorted(sorted, Head(rest)), Tail(rest))

MutSortSteps(s) == s
SortSteps(s) == SortFrom(<< >>, s)

\* step.test[step.test.length - 1]
LastTitle(path) == IF path = << >> THEN None ELSE path[Len(path)]

\* step.test.toString(): the titles joined by commas.
RECURSIVE PathToString(_)
PathToString(path) ==
    IF path = << >> THEN ""
    ELSE IF Len(path) = 1 THEN path[1]
    ELSE path[1] \o "," \o PathToString(Tail(path))

\* The Test seeded from a test:start event.
NewTest(step, firstTimestamp) ==
    [title |-> IF LastTitle(step.test) \in {None, ""} THEN step.file
               ELSE LastTitle(step.test),
     path |-> step.test,
     result |-> "passed",
     relativePath |-> step.file,
     relativeStartTime |-> toRelativeTime(step.timestamp, firstTimestamp),
     duration |-> << >>,
     steps |-> << >>]

\* sortedSteps.filter(a => a.event === "test:start").map(...)
SeedTests(sorted, firstTimestamp) ==
    LET starts == SelectSeq(sorted, LAMBDA a : a.event = "test:start") IN
    [k \in 1 .. Len(starts) |-> NewTest(starts[k], firstTimestamp)]

\* Array.prototype.find as an index: the first position of a list of
\* booleans (the predicate on each element) that is TRUE, or 0.
FirstIndex(hits) ==
    IF \E k \in 1 .. Len(hits) : hits[k]
    THEN CHOOSE k \in 1 .. Len(hits) :
            hits[k] /\ \A j \in 1 .. (k - 1) : ~ hits[j]
    ELSE 0

Includes(seq, x) == \E k \in 1 .. Len(seq) : seq[k] = x

\* tests.find(t => t.title === step.test[step.test.length - 1])
TestForStep(tests, step) ==
    FirstIndex([k \in 1 .. Len(tests) |-> tests[k].title = LastTitle(step.test)])

\* shouldSkipStep
MutShouldSkipLogged(step, skippedSteps) ==
    \/ Includes(skippedSteps, CmdId(step))
    \/ Includes(skippedSteps, CmdGroupId(step))
MutShouldSkipStep(step, skippedSteps) ==
    LET args == IF HasCmd(step) THEN Cmd(step).args ELSE << >>
        lastArg == IF args = << >> THEN None ELSE args[Len(args)]
    IN  \/ lastArg = ArgNoLog
        \/ Includes(skippedSteps, CmdId(step))
shouldSkipStep(step, skippedSteps) ==
    LET args == IF HasCmd(step) THEN Cmd(step).args ELSE << >>
        lastArg == IF args = << >> THEN None ELSE args[Len(args)]
    IN  \/ lastArg = ArgNoLog
        \/ Includes(skippedSteps, CmdId(step))
        \/ Includes(skippedSteps, CmdGroupId(step))

\* assertMatchingStep: TRUE when it does not throw.  previousStep is << >>
\* (undefined) or <<event>>.
MutAssertMatchingStep(currentStep, previousStep) == TRUE
assertMatchingStep(currentStep, previousStep) ==
    ~ \/ previousStep = << >>
      \/ ~ HasCmd(currentStep)
      \/ ~ HasCmd(previousStep[1])
      \/ Cmd(currentStep).id # Cmd(previousStep[1]).id

\* The state of a call before its first statement.
AggStart(first) ==
    [pc |-> "start", firstTimestamp |-> first, sortedSteps |-> << >>,
     tests |-> << >>, stepStack |-> << >>, skippedStepIds |-> << >>,
     activeGroup |-> << >>, currentTest |-> 0, i |-> 1, error |-> << >>]

\* throw new Error(...): the message of the mismatched-step error quotes the
\* event (detail is <<event>>), the other messages are fixed (detail << >>).
Throw(a, kind, detail) ==
    [a EXCEPT !.pc = "error", !.error = <<[kind |-> kind, detail |-> detail]>>]

\* Lines 71-102: the empty check, the sort and the seeding of the tests.
MutAggBegin(a, input) ==
    IF Len(input) = 0 THEN Throw(a, "No test steps found", << >>)
    ELSE LET sorted == SortSteps(input) IN
         [a EXCEPT !.pc = "walk", !.sortedSteps = sorted,
                   !.tests = SeedTests(sorted, a.firstTimestamp)]
AggBegin(a, input) ==
    IF Len(input) = 0 THEN [a EXCEPT !.pc = "done"]
    ELSE LET sorted == SortSteps(input) IN
         [a EXCEPT !.pc = "walk", !.sortedSteps = sorted,
                   !.tests = SeedTests(sorted, a.firstTimestamp)]

\* Lines 107-113: the test of the event becomes the current test.
MutRetarget(a, step) ==
    [a EXCEPT !.currentTest = TestForStep(a.tests, step)]
Retarget(a, step) ==
    LET testForStep == TestForStep(a.tests, step) IN
    [a EXCEPT !.activeGroup = IF a.currentTest # testForStep THEN << >> ELSE @,
              !.currentTest = testForStep]

\* activeGroup && activeGroup.groupId === step.command?.groupId
InGroup(activeGroup, c) ==
    activeGroup # << >> /\ activeGroup[1].groupId = c.groupId

\* let parentId: set to activeGroup.parentId for a step of the active group.
MutParentIdFor(activeGroup, c) ==
    IF activeGroup # << >> THEN activeGroup[1].parentId ELSE None
ParentIdFor(activeGroup, c) ==
    IF InGroup(activeGroup, c) THEN activeGroup[1].parentId ELSE None

\* if (step.command.commandId)
\*   currentTest.steps.find(s => s.id === step.command.commandId)
MutCommandStep(test, c) == 0
CommandStep(test, c) ==
    IF c.commandId \in {None, ""} THEN 0
    ELSE FirstIndex([k \in 1 .. Len(test.steps) |-> test.steps[k].id = c.commandId])

\* case "step:start", on the state b after Retarget.
StepStart(b, step) ==
    IF shouldSkipStep(step, b.skippedStepIds)
    THEN LET withId == IF CmdId(step) \notin {None, ""}
                       THEN Append(b.skippedStepIds, CmdId(step))
                       ELSE b.skippedStepIds
             withGroup == IF CmdGroupId(step) \notin {None, ""}
                          THEN Append(withId, CmdGroupId(step))
                          ELSE withId
         IN  [b EXCEPT !.skippedStepIds = withGroup]
    ELSE
    LET c == Cmd(step)
        inGroup == InGroup(b.activeGroup, c)
        parentId == ParentIdFor(b.activeGroup, c)
        group == IF inGroup THEN b.activeGroup
                 ELSE IF c.groupId \notin {None, ""}
                 THEN <<[groupId |-> c.groupId, parentId |-> c.id]>>
                 ELSE b.activeGroup
        test == b.tests[b.currentTest]
        testStep ==
            [id |-> c.id,
             parentId |-> parentId,
             name |-> c.name,
             args |-> [k \in 1 .. Len(c.args) |->
                          IF IsObject(c.args[k]) THEN ArgEmpty ELSE c.args[k]],
             commandId |-> c.commandId,
             relativeStartTime |->
                 toRelativeTime(step.timestamp, b.firstTimestamp)
                     - test.relativeStartTime,
             category |-> IF step.category \in {None, ""} THEN "other"
                          ELSE step.category,
             hook |-> step.hook,
             duration |-> << >>,
             error |-> None,
             assertIds |-> << >>]
        commandStep == CommandStep(test, c)
        linked ==
            IF commandStep = 0 THEN test.steps
            ELSE [test.steps EXCEPT ![commandStep].assertIds = Append(@, c.id)]
    IN  [b EXCEPT !.activeGroup = group,
                  !.tests[b.currentTest].steps = Append(linked, testStep),
                  !.stepStack = Append(@, [event |-> step,
                                           test |-> b.currentTest,
                                           step |-> Len(linked) + 1])]

\* The step a stepStack item refers to.
StepOf(b, item) == b.tests[item.test].steps[item.step]

\* stepStack.find(a => a.step.id === step.command.id
\*                     && a.event.test.toString() === step.test.toString())
LastStep(b, step) ==
    FirstIndex([k \in 1 .. Len(b.stepStack) |->
                   /\ StepOf(b, b.stepStack[k]).id = Cmd(step).id
                   /\ PathToString(b.stepStack[k].event.test) = PathToString(step.test)])

\* step.test[0] === AFTER_EACH_HOOK
MutIsAfterEach(step) == FALSE
IsAfterEach(step) == step.test # << >> /\ step.test[1] = AFTER_EACH_HOOK

\* Math.max(0, relativeEndTime - currentTestStep.relativeStartTime)
MutStepDuration(relativeEndTime, relativeStartTime) ==
    IF relativeEndTime > 0 THEN relativeEndTime ELSE 0
StepDuration(relativeEndTime, relativeStartTime) ==
    IF relativeEndTime - relativeStartTime > 0
    THEN relativeEndTime - relativeStartTime ELSE 0

\* currentTestStep.error = step.error: the error of the step after a
\* step:end event, whatever error it had before.
MutEndError(old, step) == IF old.error # None THEN old.error ELSE step.error
EndError(old, step) == step.error

\* !lastStep && skippedStepIds.includes(step.command?.id): the step:end of
\* a skipped step.
MutEndOfSkipped(b, step, lastStep) == FALSE
EndOfSkipped(b, step, lastStep) ==
    lastStep = 0 /\ Includes(b.skippedStepIds, CmdId(step))

\* case "step:end", on the state b after Retarget.
StepEnd(b, step) ==
    LET lastStep == LastStep(b, step)
        previous == IF lastStep = 0 THEN << >> ELSE <<b.stepStack[lastStep].event>>
    IN
    IF EndOfSkipped(b, step, lastStep) THEN b
    ELSE IF IsAfterEach(step) THEN b
    ELSE IF ~ assertMatchingStep(step, previous) THEN Throw(b, "Mismatched step event", <<step>>)
    ELSE IF lastStep = 0 THEN Throw(b, "TypeError", << >>)
    ELSE
    LET item == b.stepStack[lastStep]
        old == StepOf(b, item)
        relativeEndTime ==
            toRelativeTime(step.timestamp, b.firstTimestamp)
                - b.tests[b.currentTest].relativeStartTime
    IN  [b EXCEPT !.tests[item.test].steps[item.step] =
            [old EXCEPT !.args = IF Cmd(step).name = "assert" THEN Cmd(step).args ELSE @,
                        !.duration = <<StepDuration(relativeEndTime, old.relativeStartTime)>>,
                        !.error = EndError(old, step)]]

\* case "test:end", on the state b after Retarget.
TestEnd(b, step) ==
    [b EXCEPT !.tests[b.currentTest].duration =
        <<toRelativeTime(step.timestamp, b.firstTimestamp)
            - b.tests[b.currentTest].relativeStartTime>>]

\* One iteration of the loop over sortedSteps.
ProcessStep(a) ==
    LET step == a.sortedSteps[a.i]
        b == Retarget(a, step)
        c == IF b.currentTest = 0 THEN Throw(b, "currentTest does not exist", << >>)
             ELSE IF step.event = "step:start" THEN StepStart(b, step)
             ELSE IF step.event = "step:end" THEN StepEnd(b, step)
             ELSE IF step.event = "test:end" THEN TestEnd(b, step)
             ELSE b
    IN  IF c.pc = "error" THEN c
        ELSE IF a.i = Len(a.sortedSteps) THEN [c EXCEPT !.pc = "done", !.i = a.i + 1]
        ELSE [c EXCEPT !.i = a.i + 1]

\* The whole call as a function of its arguments.
RECURSIVE Walk(_)
Walk(a) == IF a.pc = "walk" THEN Walk(ProcessStep(a)) ELSE a

groupStepsByTest(input, firstTimestamp) == Walk(AggBegin(AggStart(firstTimestamp), input))

\* What the caller observes: the returned tests or the error thrown.
Outcome(a) == IF a.pc = "error" THEN [failed |-> TRUE, tests |-> << >>, error |-> a.error]
              ELSE [failed |-> FALSE, tests |-> a.tests, error |-> << >>]

(***************************************************************************)
(* The inputs of groupStepsByTest: every list of at most MaxSteps events   *)
(* of one pool, and the firstTimestamp the caller passes.                  *)
(***************************************************************************)
MaxSteps == 4

T00 == <<0, 0>>
T05 == <<0, 5>>
T15 == <<1, 5>>
T20 == <<2, 0>>

File == "spec.cy.ts"
PathA == <<"suite", "A">>
PathB == <<"suite", "B">>
PathAfterEachA == <<AFTER_EACH_HOOK, "A">>

TestEvent(kind, path, ts) ==
    [event |-> kind, test |-> path, file |-> File, timestamp |-> ts,
     command |-> << >>, category |-> None, hook |-> None, error |-> None]

StepEvent(kind, path, ts, id, name, args, err) ==
    [event |-> kind, test |-> path, file |-> File, timestamp |-> ts,
     command |-> <<[id |-> id, groupId |-> None, commandId |-> None,
                    name |-> name, args |-> args]>>,
     category |-> "command", hook |-> None, error |-> err]

\* A step event whose command carries a groupId and a commandId.
CmdEvent(kind, path, ts, id, groupId, commandId, name, args, err) ==
    [event |-> kind, test |-> path, file |-> File, timestamp |-> ts,
     command |-> <<[id |-> id, groupId |-> groupId, commandId |-> commandId,
                    name |-> name, args |-> args]>>,
     category |-> "command", hook |-> None, error |-> err]

\* Events of one test with equal, increasing and decreasing timestamps.
PoolOrder ==
    { TestEvent("test:start", PathA, T05),
      TestEvent("test:end", PathA, T20),
      TestEvent("test:end", PathA, T00),
      StepEvent("step:enqueue", PathA, T00, "a", "get", <<ArgText>>, None),
      StepEvent("step:start", PathA, T05, "a", "get", <<ArgText>>, None),
      StepEvent("step:start", PathA, T15, "a", "get", <<ArgText>>, None),
      StepEvent("step:end", PathA, T15, "a", "get", <<ArgText>>, None),
      StepEvent("step:end", PathA, T20, "a", "get", <<ArgText>>, "failed") }

\* Step ends with and without a step in progress: unmatched, skipped, in an
\* afterEach hook, of a test that never started.
PoolMismatch ==
    { TestEvent("test:start", PathA, T00),
      StepEvent("step:start", PathA, T05, "a", "get", <<ArgText>>, None),
      StepEvent("step:end", PathA, T15, "a", "get", <<ArgText>>, None),
      StepEvent("step:end", PathA, T15, "b", "get", <<ArgText>>, None),
      StepEvent("step:end", PathAfterEachA, T20, "b", "get", <<ArgText>>, None),
      StepEvent("step:start", PathA, T05, "c", "get", <<ArgText, ArgNoLog>>, None),
      StepEvent("step:end", PathA, T15, "c", "get", <<ArgText, ArgNoLog>>, None),
      StepEvent("step:end", PathB, T15, "a", "get", <<ArgText>>, None) }

\* A group G whose first step disables logging, later steps of G, and the
\* step:end events of skipped steps.
PoolSkip ==
    { TestEvent("test:start", PathA, T00),
      CmdEvent("step:start", PathA, T05, "p", "G", None, "get", <<ArgNoLog>>, None),
      CmdEvent("step:start", PathA, T15, "q", "G", None, "find", <<ArgText>>, None),
      CmdEvent("step:start", PathA, T20, "r", "G", None, "click", << >>, None),
      CmdEvent("step:end", PathA, T20, "q", "G", None, "find", <<ArgText>>, None),
      CmdEvent("step:end", PathA, T15, "p", "G", None, "get", <<ArgNoLog>>, None),
      CmdEvent("step:end", PathB, T15, "p", "G", None, "get", <<ArgNoLog>>, None) }

\* A step that is ended more than once, with and without an error.
PoolRetried ==
    { TestEvent("test:start", PathA, T00),
      StepEvent("step:start", PathA, T05, "a", "get", <<ArgText>>, None),
      StepEvent("step:start", PathA, T15, "a", "get", <<ArgText>>, None),
      StepEvent("step:end", PathA, T15, "a", "get", <<ArgText>>, "failed"),
      StepEvent("step:end", PathA, T15, "a", "get", <<ArgText>>, None),
      StepEvent("step:end", PathA, T20, "a", "get", <<ArgText>>, "failed again"),
      StepEvent("step:end", PathA, T20, "a", "get", <<ArgText>>, None) }

\* Three tests, two of them with the same title in different suites.
PathOtherA == <<"other", "A">>

PoolTitles ==
    { TestEvent("test:start", PathA, T00),
      TestEvent("test:start", PathOtherA, T05),
      TestEvent("test:start", PathB, T15),
      StepEvent("step:start", PathOtherA, T15, "a", "get", <<ArgText>>, None),
      StepEvent("step:start", PathB, T20, "b", "get", <<ArgText>>, None),
      TestEvent("test:end", PathOtherA, T20),
      TestEvent("test:end", PathA, T05) }

\* testStart@0, step:start{id:a}@5, step:end{id:a}@15, testEnd@20.
Scenario ==
    << TestEvent("test:start", PathA, T00),
       StepEvent("step:start", PathA, T05, "a", "get", <<ArgText>>, None),
       StepEvent("step:end", PathA, T15, "a", "get", <<ArgText>>, None),
       TestEvent("test:end", PathA, T20) >>

PoolScenario == {Scenario[k] : k \in 1 .. Len(Scenario)}

\* Steps of the groups G and H and a step of no group.
PoolGroups ==
    { TestEvent("test:start", PathA, T00),
      CmdEvent("step:start", PathA, T05, "a", "G", None, "get", <<ArgText>>, None),
      CmdEvent("step:start", PathA, T15, "b", None, None, "log", <<ArgText>>, None),
      CmdEvent("step:start", PathA, T15, "d", "H", None, "wrap", <<ArgText>>, None),
      CmdEvent("step:start", PathA, T20, "c", "G", None, "find", <<ArgText>>, None) }

\* A command and assertions on it (commandId), one on a command that does
\* not exist; the assertion x has an object argument.
PoolAssert ==
    { TestEvent("test:start", PathA, T00),
      CmdEvent("step:start", PathA, T05, "a", None, None, "get", <<ArgText>>, None),
      CmdEvent("step:start", PathA, T15, "x", None, "a", "assert", <<ArgData, ArgText>>, None),
      CmdEvent("step:end", PathA, T20, "x", None, "a", "assert", <<ArgData, ArgText>>, None),
      CmdEvent("step:start", PathA, T15, "y", None, "z", "assert", <<ArgText>>, None) }

\* A step that starts before and a step that starts after the test:start
\* event of its test.
PoolEarly ==
    { TestEvent("test:start", PathA, T05),
      StepEvent("step:start", PathA, T00, "a", "get", <<ArgText>>, None),
      StepEvent("step:start", PathA, T15, "b", "get", <<ArgText>>, None),
      StepEvent("step:end", PathA, T15, "a", "get", <<ArgText>>, None) }

\* A step of an afterEach hook of test A, started and ended with an error.
PoolAfterEach ==
    { TestEvent("test:start", PathA, T00),
      StepEvent("step:start", PathAfterEachA, T05, "h", "task", <<ArgText>>, None),
      StepEvent("step:end", PathAfterEachA, T15, "h", "task", <<ArgText>>, "failed"),
      StepEvent("step:end", PathAfterEachA, T20, "g", "task", <<ArgText>>, None) }

\* Two tests whose steps have the same groupId.
PoolTwoTests ==
    { TestEvent("test:start", PathA, T00),
      TestEvent("test:start", PathB, T05),
      CmdEvent("step:start", PathA, T05, "a", "G", None, "get", <<ArgText>>, None),
      CmdEvent("step:start", PathB, T15, "b", "G", None, "find", <<ArgText>>, None) }

Pools == {PoolOrder, PoolMismatch, PoolSkip, PoolRetried, PoolTitles, PoolScenario,
          PoolGroups, PoolAssert, PoolEarly, PoolAfterEach, PoolTwoTests}

SeqsUpTo(S, n) == UNION {[1 .. k -> S] : k \in 0 .. n}

\* The time of the earliest event (0 for no events).
EarliestTime(input) ==
    IF input = << >> THEN 0
    ELSE toTime(SortSteps(input)[1].timestamp)

InitAgg ==
    /\ numTasks = 0
    /\ concurrencyLimit = 0
    /\ pc = "off"
    /\ taskIndex = 0
    /\ activePromises = << >>
    /\ results = << >>
    /\ awaited = {}
    /\ awaitState = "none"
    /\ thrown = NoOutcome
    /\ task = << >>
    /\ \E pool \in Pools : steps \in SeqsUpTo(pool, MaxSteps)
    /\ \E first \in {0, EarliestTime(steps)} : agg = AggStart(first)
    /\ rt = None
    /\ plug = None

\* The event the loop is about to process.
Current == agg.sortedSteps[agg.i]
Walking(kind) == agg.pc = "walk" /\ Current.event = kind

Begin ==
    /\ agg.pc = "start"
    /\ agg' = AggBegin(agg, steps)
    /\ UNCHANGED steps

OnEnqueue ==
    /\ Walking("step:enqueue")
    /\ agg' = ProcessStep(agg)
    /\ UNCHANGED steps

OnTestStart ==
    /\ Walking("test:start")
    /\ agg' = ProcessStep(agg)
    /\ UNCHANGED steps

OnStepStart ==
    /\ Walking("step:start")
    /\ agg' = ProcessStep(agg)
    /\ UNCHANGED steps

OnStepEnd ==
    /\ Walking("step:end")
    /\ agg' = ProcessStep(agg)
    /\ UNCHANGED steps

OnTestEnd ==
    /\ Walking("test:end")
    /\ agg' = ProcessStep(agg)
    /\ UNCHANGED steps

NextAgg ==
    \/ (Begin /\ UNCHANGED <<dispVars, retryVars, pluginVars>>)
    \/ (OnEnqueue /\ UNCHANGED <<dispVars, retryVars, pluginVars>>)
    \/ (OnTestStart /\ UNCHANGED <<dispVars, retryVars, pluginVars>>)
    \/ (OnStepStart /\ UNCHANGED <<dispVars, retryVars, pluginVars>>)
    \/ (OnStepEnd /\ UNCHANGED <<dispVars, retryVars, pluginVars>>)
    \/ (OnTestEnd /\ UNCHANGED <<dispVars, retryVars, pluginVars>>)

SpecAgg == InitAgg /\ [][NextAgg]_vars

(***************************************************************************)
(* retry(fn, backOffStrategy, onFail) called on its own, with either       *)
(* backoff strategy and with an onFail handler that is absent, returns or  *)
(* throws.  The call keeps a log of what it did; waited is the time that   *)
(* has passed since waitForTime set its timer.                             *)
(***************************************************************************)
\* jitter: Math.random() * 100.0 lies in [0, JitterLimit).
JitterLimit == 100
Jitters == {0, JitterLimit - 1}

\* The fixed part of both strategies.
BaseDelay == 100

RECURSIVE Pow2(_)
Pow2(n) == IF n <= 0 THEN 1 ELSE 2 * Pow2(n - 1)

\* geometricBackoff: 2 ** iteration * 100 + jitter()
MutGeometricBackoff(iteration, jitter) == Pow2(iteration - 1) * BaseDelay + jitter
geometricBackoff(iteration, jitter) == Pow2(iteration) * BaseDelay + jitter

\* linearBackoff: 100 + jitter()
linearBackoff(jitter) == BaseDelay + jitter

Strategies == {"linear", "geometric"}
OnFails == {"absent", "returns", "throws"}

\* backOffStrategy(iteration) for the strategy the call was given.
backOffStrategy(strategy, iteration, jitter) ==
    IF strategy = "geometric" THEN geometricBackoff(iteration, jitter)
    ELSE linearBackoff(jitter)

\* What retry passes to backOffStrategy.
MutBackoffArg(t) == t.currentAttempt - 1
BackoffArg(t) == t.currentAttempt

OnFailError == <<"error", "onFail">>

RetryCall(strategy, onFail) ==
    [rpc |-> "idle", currentAttempt |-> 0, calls |-> 0, onFailCalls |-> 0,
     outcome |-> NoOutcome, strategy |-> strategy, onFail |-> onFail,
     delay |-> 0, waited |-> 0, log |-> << >>]

Logged(t, entry) == [t EXCEPT !.log = Append(@, entry)]

\* The catch block of retry for the error e of attempt currentAttempt.
MutRetryCatchWith(t, e, jitter) ==
    LET n == t.currentAttempt
        rejected == Logged(t, <<"rejected", n, e>>)
        handled == IF t.onFail = "absent" THEN rejected
                   ELSE [Logged(rejected, <<"onFail", n, e>>)
                            EXCEPT !.onFailCalls = @ + 1]
        ms == backOffStrategy(t.strategy, BackoffArg(t), jitter)
    IN  IF t.onFail = "throws"
        THEN [handled EXCEPT !.rpc = "threw", !.outcome = OnFailError]
        ELSE [Logged(handled, <<"backoff", BackoffArg(t), jitter, ms>>)
                 EXCEPT !.rpc = "waiting", !.delay = ms, !.waited = 0]
RetryCatchWith(t, e, jitter) ==
    LET n == t.currentAttempt
        rejected == Logged(t, <<"rejected", n, e>>)
        handled == IF t.onFail = "absent" THEN rejected
                   ELSE [Logged(rejected, <<"onFail", n, e>>)
                            EXCEPT !.onFailCalls = @ + 1]
        ms == backOffStrategy(t.strategy, BackoffArg(t), jitter)
    IN  IF t.onFail = "throws"
        THEN [handled EXCEPT !.rpc = "threw", !.outcome = OnFailError]
        ELSE IF n = MAX_ATTEMPTS
        THEN [handled EXCEPT !.rpc = "threw", !.outcome = e]
        ELSE [Logged(handled, <<"backoff", BackoffArg(t), jitter, ms>>)
                 EXCEPT !.rpc = "waiting", !.delay = ms, !.waited = 0]

\* The timer of waitForTime(ms) has run for at least ms.
TimerDue(t) == t.waited >= t.delay

InitRetry ==
    /\ numTasks = 0
    /\ concurrencyLimit = 0
    /\ pc = "off"
    /\ taskIndex = 0
    /\ activePromises = << >>
    /\ results = << >>
    /\ awaited = {}
    /\ awaitState = "none"
    /\ thrown = NoOutcome
    /\ task = << >>
    /\ steps = << >>
    /\ agg = None
    /\ plug = None
    /\ \E strategy \in Strategies, onFail \in OnFails :
          rt = RetryCall(strategy, onFail)

\* retry is called: the first iteration up to await fn().
Call ==
    /\ rt.rpc = "idle"
    /\ rt' = Logged(RetryStart(rt), <<"attempt", 1, 0>>)

\* The invocation of fn in flight fulfils.
FnFulfils ==
    /\ rt.rpc = "attempt"
    /\ rt' = Logged(RetryReturn(rt, Val(0, rt.currentAttempt)),
                    <<"returned", rt.currentAttempt>>)

\* The invocation of fn in flight rejects.
FnRejects ==
    /\ rt.rpc = "attempt"
    /\ \E jitter \in Jitters :
          rt' = RetryCatchWith(rt, Err(0, rt.currentAttempt), jitter)

\* Time passes while retry waits: half of the delay or all of it.
TimePasses ==
    /\ rt.rpc = "waiting"
    /\ ~ TimerDue(rt)
    /\ \E d \in {rt.delay \div 2, rt.delay} :
          rt' = [rt EXCEPT !.waited = @ + d]

\* The timer fires: the loop condition, currentAttempt++ and fn().
TimerFires ==
    /\ rt.rpc = "waiting"
    /\ TimerDue(rt)
    /\ LET t == RetryNext(rt) IN
          rt' = IF t.rpc = "attempt"
                THEN Logged(t, <<"attempt", t.currentAttempt, rt.waited>>)
                ELSE t

NextRetry ==
    \/ (Call /\ UNCHANGED <<dispVars, aggVars, pluginVars>>)
    \/ (FnFulfils /\ UNCHANGED <<dispVars, aggVars, pluginVars>>)
    \/ (FnRejects /\ UNCHANGED <<dispVars, aggVars, pluginVars>>)
    \/ (TimePasses /\ UNCHANGED <<dispVars, aggVars, pluginVars>>)
    \/ (TimerFires /\ UNCHANGED <<dispVars, aggVars, pluginVars>>)

SpecRetry == InitRetry /\ [][NextRetry]_vars

Next ==
    \/ (Launch /\ UNCHANGED <<aggVars, retryVars, pluginVars>>)
    \/ (AwaitRace /\ UNCHANGED <<aggVars, retryVars, pluginVars>>)
    \/ (AwaitAll /\ UNCHANGED <<aggVars, retryVars, pluginVars>>)
    \/ (Resume /\ UNCHANGED <<aggVars, retryVars, pluginVars>>)
    \/ \E i \in Indices : (AttemptSucceeds(i) /\ UNCHANGED <<aggVars, retryVars, pluginVars>>)
    \/ \E i \in Indices : (AttemptFails(i) /\ UNCHANGED <<aggVars, retryVars, pluginVars>>)
    \/ \E i \in Indices : (BackoffElapsed(i) /\ UNCHANGED <<aggVars, retryVars, pluginVars>>)
    \/ \E i \in Indices : (Finally(i) /\ UNCHANGED <<aggVars, retryVars, pluginVars>>)

Init ==
    /\ InitDisp
    /\ steps = << >>
    /\ agg = None
    /\ rt = None
    /\ plug = None

Spec == Init /\ [][Next]_vars

\* The event loop runs a job whenever one is queued (the synchronous loop of
\* concurrentWithRetry, a promise job or a timer that is due), and every
\* invocation of a task settles one way or the other: the call and its
\* tasks do not stop while one of their steps is possible.
\* The part of the state that every step of concurrentWithRetry and of its
\* tasks changes.
Progress ==
    <<pc, taskIndex, awaitState,
      [i \in Indices |-> <<task[i].rpc, task[i].currentAttempt, task[i].promise>>]>>

Fairness == WF_Progress(Next)

FairSpec == Spec /\ Fairness

(***************************************************************************)
(* The wrapped on of the cypress plugin (plugin._on).                      *)
(***************************************************************************)
MaxOnCalls == 3

BeforeBrowserLaunch == "before:browser:launch"
SingleHandlerKeys == {"after:screenshot", "file:preprocessor", "dev-server:start"}

\* The events handlers are registered for, and the handlers.
EventNames == {"task", "after:screenshot", BeforeBrowserLaunch, "after:spec"}
HandlerNames == {"h1", "h2"}

\* What base is given for an event with a list of handlers.
Dispatcher == "dispatcher"

\* What a handler returns: nothing, null or launch options.
Undefined == "undefined"
Null == "null"
Returns == {Undefined, Null, "optionsA", "optionsB"}
Pending == "pending"
Threw == "threw"

\* The arguments the event is fired with (the launchOptions among them).
FiredWith == "options0"

\* a ?? b
NullishCoalesce(a, b) == IF a \in {Undefined, Null} THEN b ELSE a

\* No call of a dispatcher so far.
IdleDispatch ==
    [pc |-> "idle", e |-> None, args |-> None, launchOptions |-> None, idx |-> 0,
     atFire |-> 0, inFlight |-> {}, ran |-> << >>, result |-> None]

\* const handlers = {}, const singleHandlerEvents = {...: false}
NewPlugin ==
    [handlers |-> [e \in EventNames |-> << >>],
     singleHandlerEvents |-> [k \in SingleHandlerKeys |-> FALSE],
     base |-> << >>, calls |-> 0, thrown |-> None, d |-> IdleDispatch]

\* handlers[e].length === 1
MutFirstHandler(hs) == TRUE
FirstHandler(hs) == Len(hs) = 1

\* The function _on returns, called with (e, h).
WrappedOn(p, e, h) ==
    LET q == [p EXCEPT !.calls = @ + 1, !.thrown = None] IN
    IF e = "task"
    THEN [q EXCEPT !.base = Append(@, <<e, h>>)]
    ELSE IF e \in SingleHandlerKeys
    THEN IF p.singleHandlerEvents[e]
         THEN [q EXCEPT !.thrown = "Only 1 handler allowed"]
         ELSE [q EXCEPT !.singleHandlerEvents[e] = TRUE,
                        !.base = Append(@, <<e, h>>)]
    ELSE LET hs == Append(p.handlers[e], h) IN
         [q EXCEPT !.handlers[e] = hs,
                   !.base = IF FirstHandler(hs) THEN Append(@, <<e, Dispatcher>>) ELSE @]

\* What the handler in turn is called with.
HandlerInput(d) == IF d.e = BeforeBrowserLaunch THEN d.launchOptions ELSE d.args

\* for (const currentHandler of handlers[e]): the next handler is called
\* and awaited, or the loop ends and the dispatcher returns.
CallNext(d, hs) ==
    IF d.idx <= Len(hs)
    THEN [d EXCEPT !.pc = "await",
                   !.inFlight = @ \cup {d.idx},
                   !.ran = Append(@, [h |-> hs[d.idx], input |-> HandlerInput(d),
                                      output |-> Pending])]
    ELSE [d EXCEPT !.pc = "returned",
                   !.result = IF d.e = BeforeBrowserLaunch THEN d.launchOptions
                              ELSE Undefined]

\* The function makeHandlerDispatcher(e) returns, called with args: up to
\* the first await.
DispatcherCalled(e, args, hs) ==
    CallNext([IdleDispatch EXCEPT !.e = e, !.args = args,
                                  !.launchOptions = IF e = BeforeBrowserLaunch
                                                    THEN args ELSE None,
                                  !.idx = 1, !.atFire = Len(hs)], hs)

\* The awaited handler fulfils with ret: the dispatcher goes on.
HandlerFulfilled(d, ret, hs) ==
    CallNext([d EXCEPT !.inFlight = @ \ {d.idx},
                       !.ran[d.idx].output = ret,
                       !.launchOptions = IF d.e = BeforeBrowserLaunch
                                         THEN NullishCoalesce(ret, @) ELSE @,
                       !.idx = @ + 1], hs)

\* The awaited handler throws or rejects: the await throws and the
\* dispatcher rejects.
HandlerRejected(d) ==
    [d EXCEPT !.pc = "rejected",
              !.inFlight = @ \ {d.idx},
              !.ran[d.idx].output = Threw,
              !.result = Threw]

InitPlugin ==
    /\ numTasks = 0
    /\ concurrencyLimit = 0
    /\ pc = "off"
    /\ taskIndex = 0
    /\ activePromises = << >>
    /\ results = << >>
    /\ awaited = {}
    /\ awaitState = "none"
    /\ thrown = NoOutcome
    /\ task = << >>
    /\ steps = << >>
    /\ agg = None
    /\ rt = None
    /\ plug = NewPlugin

\* on(e, h) is called, also while a dispatcher waits for a handler.
OnCalled ==
    /\ plug.calls < MaxOnCalls
    /\ \E e \in EventNames, h \in HandlerNames : plug' = WrappedOn(plug, e, h)

\* Cypress fires an event for which base holds a dispatcher.
EventFires ==
    /\ plug.d.pc \in {"idle", "returned", "rejected"}
    /\ \E k \in 1 .. Len(plug.base) :
          /\ plug.base[k][2] = Dispatcher
          /\ plug' = [plug EXCEPT !.d = DispatcherCalled(plug.base[k][1], FiredWith,
                                                         plug.handlers[plug.base[k][1]])]

HandlerFulfils ==
    /\ plug.d.pc = "await"
    /\ \E ret \in Returns :
          plug' = [plug EXCEPT !.d = HandlerFulfilled(plug.d, ret, plug.handlers[plug.d.e])]

HandlerRejects ==
    /\ plug.d.pc = "await"
    /\ plug' = [plug EXCEPT !.d = HandlerRejected(plug.d)]

NextPlugin ==
    \/ (OnCalled /\ UNCHANGED <<dispVars, aggVars, retryVars>>)
    \/ (EventFires /\ UNCHANGED <<dispVars, aggVars, retryVars>>)
    \/ (HandlerFulfils /\ UNCHANGED <<dispVars, aggVars, retryVars>>)
    \/ (HandlerRejects /\ UNCHANGED <<dispVars, aggVars, retryVars>>)

SpecPlugin == InitPlugin /\ [][NextPlugin]_vars

(***************************************************************************)
(* Claims about concurrentWithRetry and retry, checked under Spec.         *)
(***************************************************************************)

\* C1: when some task has exhausted its retries, concurrentWithRetry never
\* returns a results array (for every concurrencyLimit >= 1).
C1_ExhaustionFailsRunAll ==
    (pc = "returned" /\ concurrencyLimit >= 1)
        => \A i \in Indices : task[i].rpc # "threw"

\* C2: when concurrentWithRetry returns, results has the length of tasks and
\* results[i] is the value tasks[i] produced, for every index i.
C2_ResultsInTaskOrder ==
    (pc = "returned" /\ concurrencyLimit >= 1)
        => /\ ResultsLength = numTasks
           /\ \A i \in Indices :
                /\ i \in DOMAIN results
                /\ task[i].succeededAt # 0
                /\ results[i] = Val(i, task[i].succeededAt)

\* C3: the number of tasks launched and not yet completed never exceeds
\* concurrencyLimit.
C3_InFlightBounded == Cardinality(InFlight) <= concurrencyLimit

\* C3 witness: the limit is reached while a task is still pending.
C3_Witness ==
    /\ concurrencyLimit >= 2
    /\ Cardinality(InFlight) = concurrencyLimit
    /\ taskIndex < numTasks
    /\ pc = "race"

\* C4: concurrentWithRetry returns only after every task has been launched
\* and has completed; no task is in flight at the return.
C4_ReturnsAfterAllCompleted ==
    pc = "returned"
        => /\ taskIndex = numTasks
           /\ InFlight = {}
           /\ \A i \in Indices : task[i].rpc \in {"returned", "threw"}

\* C4 witness: a return with more tasks than slots.
C4_Witness ==
    /\ pc = "returned"
    /\ concurrencyLimit >= 1
    /\ numTasks > concurrencyLimit

\* C5: an operation that fails on every attempt is invoked exactly
\* MAX_ATTEMPTS times, and retry throws the error of the last invocation.
C5_ExhaustionAfterFiveAttempts ==
    \A i \in Indices :
        /\ task[i].calls <= MAX_ATTEMPTS
        /\ (task[i].rpc = "waiting" => task[i].calls < MAX_ATTEMPTS)
        /\ (task[i].failed = MAX_ATTEMPTS
               => task[i].rpc = "threw" /\ task[i].calls = MAX_ATTEMPTS)
        /\ (task[i].rpc = "threw"
               => /\ task[i].calls = MAX_ATTEMPTS
                  /\ task[i].failed = MAX_ATTEMPTS
                  /\ task[i].outcome = Err(i, MAX_ATTEMPTS))

\* C5 witness: a retry call that has thrown.
C5_Witness == \E i \in Indices : task[i].rpc = "threw"

\* C6: when the operation succeeds on attempt k, retry returns the value of
\* attempt k, invokes it no further and throws nothing; concurrentWithRetry
\* fails only with the error of a task that failed MAX_ATTEMPTS times.
C6_SuccessEndsRetry ==
    /\ \A i \in Indices :
          task[i].succeededAt # 0
             => /\ task[i].rpc = "returned"
                /\ task[i].succeededAt \in 1 .. MAX_ATTEMPTS
                /\ task[i].calls = task[i].succeededAt
                /\ task[i].outcome = Val(i, task[i].succeededAt)
                /\ task[i].promise # "rejected"
    /\ pc = "failed"
          => \E j \in Indices :
                /\ task[j].succeededAt = 0
                /\ task[j].failed = MAX_ATTEMPTS
                /\ thrown = Err(j, MAX_ATTEMPTS)

\* C6 witness: a task succeeded on its last attempt after four failures and
\* concurrentWithRetry returned.
C6_Witness ==
    /\ pc = "returned"
    /\ \E i \in Indices :
          /\ task[i].succeededAt = MAX_ATTEMPTS
          /\ task[i].failed = MAX_ATTEMPTS - 1

\* C7: onFail is called only between attempts: MAX_ATTEMPTS - 1 times when
\* every attempt fails, k - 1 times when attempt k succeeds.
C7_OnFailOnlyBetweenAttempts ==
    \A i \in Indices :
        /\ (task[i].rpc = "threw" => task[i].onFailCalls = MAX_ATTEMPTS - 1)
        /\ (task[i].rpc = "returned" => task[i].onFailCalls = task[i].calls - 1)

(***************************************************************************)
(* Claims about groupStepsByTest, checked under SpecAgg.                   *)
(***************************************************************************)
Finished == agg.pc \in {"done", "error"}

\* The rearrangements of a list of n events.
Perms(n) == {p \in [1 .. n -> 1 .. n] : \A x, y \in 1 .. n : p[x] = p[y] => x = y}
Permuted(input, p) == [k \in 1 .. Len(input) |-> input[p[k]]]

\* The call has the outcome of the call on every rearranged input.
SameOutcomeForAllOrders ==
    \A p \in Perms(Len(steps)) :
        Outcome(groupStepsByTest(Permuted(steps, p), agg.firstTimestamp)) = Outcome(agg)

DistinctTimestamps ==
    \A x, y \in 1 .. Len(steps) :
        x # y => localeCompare(steps[x].timestamp, steps[y].timestamp) # 0

\* C8: every permutation of the events, equal timestamps included, gives the
\* same outcome: the same Tests and Steps or the same failure.
C8_AnyOrderSameOutcome == Finished => SameOutcomeForAllOrders

\* C8 as amended: every permutation of events with pairwise different
\* timestamps gives the same outcome.
C8_DistinctTimestampsSameOutcome ==
    (Finished /\ DistinctTimestamps) => SameOutcomeForAllOrders

\* C8 witness: three or more events with different timestamps arrived out of
\* order and gave a Test with a finished Step.
C8_Witness ==
    /\ agg.pc = "done"
    /\ DistinctTimestamps
    /\ Len(steps) >= 3
    /\ steps # agg.sortedSteps
    /\ \E t \in 1 .. Len(agg.tests) :
          \E k \in 1 .. Len(agg.tests[t].steps) :
             agg.tests[t].steps[k].duration # << >>

\* C9: every duration of a returned Test or Step is >= 0.
C9_DurationsNonNegative ==
    agg.pc = "done"
        => \A t \in 1 .. Len(agg.tests) :
              /\ agg.tests[t].duration # << >> => agg.tests[t].duration[1] >= 0
              /\ \A k \in 1 .. Len(agg.tests[t].steps) :
                    agg.tests[t].steps[k].duration # << >>
                        => agg.tests[t].steps[k].duration[1] >= 0

\* The loop is at a step:end event that matches no step in progress (same
\* command id, same test path) and whose id has not been skipped.
AtUnmatchedEnd ==
    /\ Walking("step:end")
    /\ LastStep(agg, Current) = 0
    /\ ~ Includes(agg.skippedStepIds, CmdId(Current))

FailsWith(a, kind) == a.pc = "error" /\ a.error[1].kind = kind

\* C10: a step:end event that matches no step in progress and is not skipped
\* makes the call fail with the mismatched-step error.
C10_UnmatchedEndIsMismatch ==
    AtUnmatchedEnd => FailsWith(ProcessStep(agg), "Mismatched step event")

\* C10 as amended: such an event makes the call fail with "currentTest does
\* not exist" when no seeded Test has the event's title, is dropped without
\* error and without effect on the Tests when its test path begins with the
\* afterEach hook title, and otherwise makes the call fail with the
\* mismatched-step error naming the event.
C10_UnmatchedEndOutcome ==
    AtUnmatchedEnd =>
        IF TestForStep(agg.tests, Current) = 0
        THEN FailsWith(ProcessStep(agg), "currentTest does not exist")
        ELSE IF IsAfterEach(Current)
        THEN ProcessStep(agg).pc # "error" /\ ProcessStep(agg).tests = agg.tests
        ELSE /\ FailsWith(ProcessStep(agg), "Mismatched step event")
             /\ ProcessStep(agg).error[1].detail = <<Current>>

\* C10 witness: the call has failed with the mismatched-step error at an
\* unmatched step:end while another step was in progress.
C10_Witness ==
    /\ FailsWith(agg, "Mismatched step event")
    /\ agg.sortedSteps[agg.i].event = "step:end"
    /\ LastStep(agg, agg.sortedSteps[agg.i]) = 0
    /\ ~ IsAfterEach(agg.sortedSteps[agg.i])
    /\ agg.stepStack # << >>

(***************************************************************************)
(* C11: once a groupId is in the skip set, every later step:start event of *)
(* that group is skipped: the event creates no Step in any Test and leaves *)
(* no in-progress step, its own id joins the skip set, and the skip set    *)
(* never loses an entry, so the group stays skipped until the call ends.   *)
(***************************************************************************)
InSkippedGroup(step) ==
    /\ CmdGroupId(step) \notin {None, ""}
    /\ Includes(agg.skippedStepIds, CmdGroupId(step))

IsPrefix(s, t) == Len(s) <= Len(t) /\ SubSeq(t, 1, Len(s)) = s

C11_SkippedGroupStaysSkipped ==
    [][agg.pc = "walk" /\ agg'.pc # "error" =>
          /\ IsPrefix(agg.skippedStepIds, agg'.skippedStepIds)
          /\ (Current.event = "step:start" /\ InSkippedGroup(Current)) =>
                 /\ agg'.tests = agg.tests
                 /\ agg'.stepStack = agg.stepStack
                 /\ Includes(agg'.skippedStepIds, CmdId(Current))]_vars

\* A step:start that is skipped for its group only: it logs, its id was not
\* skipped before, and the events before it put its groupId in the skip set.
C11_Witness ==
    /\ agg.pc = "done"
    /\ \E k \in 2 .. Len(agg.sortedSteps) :
          LET step == agg.sortedSteps[k]
              before == groupStepsByTest(SubSeq(agg.sortedSteps, 1, k - 1),
                                         agg.firstTimestamp)
          IN  /\ step.event = "step:start"
              /\ Cmd(step).args # << >>
              /\ Cmd(step).args[Len(Cmd(step).args)] # ArgNoLog
              /\ before.pc = "done"
              /\ ~ Includes(before.skippedStepIds, CmdId(step))
              /\ Includes(before.skippedStepIds, CmdGroupId(step))
              /\ Includes(agg.skippedStepIds, CmdId(step))
              /\ \A t \in 1 .. Len(agg.tests) : agg.tests[t].steps = << >>

(***************************************************************************)
(* C12: when the call returns, a Step that received several step:end       *)
(* events with its id and test path, one of them later than all the        *)
(* others, has the error of that latest event (none if it carries none),   *)
(* whatever the errors of the earlier ones.                                *)
(***************************************************************************)
\* The positions in the input of the step:end events a Step receives.
EndsOf(item) ==
    {j \in 1 .. Len(steps) :
        /\ steps[j].event = "step:end"
        /\ ~ IsAfterEach(steps[j])
        /\ CmdId(steps[j]) = CmdId(item.event)
        /\ steps[j].test = item.event.test}

\* The stack items that receive the step:end events of their id and path.
Receivers ==
    {k \in 1 .. Len(agg.stepStack) :
        \A h \in 1 .. k - 1 :
            \/ CmdId(agg.stepStack[h].event) # CmdId(agg.stepStack[k].event)
            \/ agg.stepStack[h].event.test # agg.stepStack[k].event.test}

Latest(ends) ==
    {j \in ends : \A h \in ends \ {j} : toTime(steps[h].timestamp) < toTime(steps[j].timestamp)}

C12_LaterEndSetsError ==
    agg.pc = "done" =>
        \A k \in Receivers :
            LET item == agg.stepStack[k]
                ends == EndsOf(item)
            IN  Cardinality(ends) >= 2 =>
                    \A j \in Latest(ends) : StepOf(agg, item).error = steps[j].error

\* A returned Step that was ended twice at different times with different
\* errors.
C12_Witness ==
    /\ agg.pc = "done"
    /\ \E k \in Receivers :
          LET ends == EndsOf(agg.stepStack[k]) IN
          /\ Cardinality(ends) = 2
          /\ \E j \in Latest(ends) : \E h \in ends :
                /\ steps[h].error # steps[j].error
                /\ steps[h].error # None

(***************************************************************************)
(* C13: every event is attributed to the Test of its own test path: when   *)
(* the call returns, every Step lies in the Test whose path is the path of *)
(* the step:start event that created it, every Test that has a duration    *)
(* got it from a test:end event of its path, and when the test:start      *)
(* events name pairwise different paths there is exactly one Test for each *)
(* of them.                                                                *)
(***************************************************************************)
\* No two test:start events of the input name the same test path.
StartsHaveDistinctPaths ==
    \A j, h \in 1 .. Len(steps) :
        (steps[j].event = "test:start" /\ steps[h].event = "test:start"
            /\ steps[j].test = steps[h].test) => j = h

C13_AttributedByTestPath ==
    agg.pc = "done" =>
        /\ \A k \in 1 .. Len(agg.stepStack) :
              agg.tests[agg.stepStack[k].test].path = agg.stepStack[k].event.test
        /\ \A t \in 1 .. Len(agg.tests) :
              agg.tests[t].duration # << >> =>
                  \E j \in 1 .. Len(steps) :
                      /\ steps[j].event = "test:end"
                      /\ steps[j].test = agg.tests[t].path
        /\ StartsHaveDistinctPaths =>
              /\ \A t, u \in 1 .. Len(agg.tests) :
                    agg.tests[t].path = agg.tests[u].path => t = u
              /\ \A j \in 1 .. Len(steps) :
                    steps[j].event = "test:start" =>
                        \E t \in 1 .. Len(agg.tests) : agg.tests[t].path = steps[j].test

(***************************************************************************)
(* C14: a step:end event whose id is in the skip set and that finds no     *)
(* in-progress step is ignored: the call does not fail at it and no Test,  *)
(* Step or in-progress step changes.  As stated, for every such event.     *)
(***************************************************************************)
AtEndOfSkipped ==
    /\ Walking("step:end")
    /\ LastStep(agg, Current) = 0
    /\ Includes(agg.skippedStepIds, CmdId(Current))

Ignored ==
    /\ agg'.pc # "error"
    /\ agg'.tests = agg.tests
    /\ agg'.stepStack = agg.stepStack
    /\ agg'.skippedStepIds = agg.skippedStepIds

C14_EndOfSkippedIgnored == [][AtEndOfSkipped => Ignored]_vars

\* C14, amended: the event is ignored when a Test with the title of the
\* event was seeded; otherwise the call has no current test for it.
C14_EndOfSkippedInSeededTestIgnored ==
    [][AtEndOfSkipped =>
          IF TestForStep(agg.tests, Current) # 0 THEN Ignored
          ELSE FailsWith(agg', "currentTest does not exist")]_vars

\* The call returned and its last event was the step:end of a skipped step.
C14_Witness ==
    /\ agg.pc = "done"
    /\ agg.sortedSteps # << >>
    /\ LET last == agg.sortedSteps[Len(agg.sortedSteps)] IN
          /\ last.event = "step:end"
          /\ ~ IsAfterEach(last)
          /\ LastStep(agg, last) = 0
          /\ Includes(agg.skippedStepIds, CmdId(last))

(***************************************************************************)
(* C15: the returned Tests are in ascending order of the timestamps of     *)
(* their test:start events, one Test for each test:start event of the      *)
(* input, whatever the order in which the events arrived.                  *)
(***************************************************************************)
TestStarts == {j \in 1 .. Len(steps) : steps[j].event = "test:start"}

C15_TestsInStartOrder ==
    agg.pc = "done" =>
        /\ Len(agg.tests) = Cardinality(TestStarts)
        /\ \A t \in 1 .. Len(agg.tests) :
              \E j \in TestStarts :
                  /\ agg.tests[t].path = steps[j].test
                  /\ agg.tests[t].relativeStartTime =
                         toTime(steps[j].timestamp) - agg.firstTimestamp
        /\ \A t, u \in 1 .. Len(agg.tests) :
              t < u => agg.tests[t].relativeStartTime <= agg.tests[u].relativeStartTime

\* Tests returned for test:start events that arrived latest first.
C15_Witness ==
    /\ agg.pc = "done"
    /\ Len(agg.tests) >= 2
    /\ \E j, h \in TestStarts :
          j < h /\ toTime(steps[h].timestamp) < toTime(steps[j].timestamp)

(***************************************************************************)
(* C16: for the events testStart@0, step:start{a}@5, step:end{a}@15,       *)
(* testEnd@20 the call returns exactly one Test with relativeStartTime 0   *)
(* and duration 20 that holds exactly one Step a with relativeStartTime 5, *)
(* duration 10 and no error, and it returns the same for the events in     *)
(* fully reversed arrival order.                                           *)
(***************************************************************************)
Reversed(s) == [k \in 1 .. Len(s) |-> s[Len(s) + 1 - k]]

ScenarioResult ==
    [failed |-> FALSE,
     error |-> << >>,
     tests |->
        << [title |-> "A", path |-> PathA, result |-> "passed",
            relativePath |-> File, relativeStartTime |-> 0, duration |-> <<20>>,
            steps |->
               << [id |-> "a", parentId |-> None, name |-> "get",
                   args |-> <<ArgText>>, commandId |-> None,
                   relativeStartTime |-> 5, category |-> "command",
                   hook |-> None, duration |-> <<10>>, error |-> None,
                   assertIds |-> << >>] >>] >>]

C16_ScenarioResult ==
    (steps \in {Scenario, Reversed(Scenario)} /\ agg.firstTimestamp = 0 /\ Finished)
        => Outcome(agg) = ScenarioResult

\* The call returned for the scenario in reversed arrival order.
C16_Witness ==
    /\ steps = Reversed(Scenario)
    /\ agg.firstTimestamp = 0
    /\ agg.pc = "done"
    /\ Len(agg.tests) = 1
    /\ Len(agg.tests[1].steps) = 1

(***************************************************************************)
(* C17: called with an empty event list, the call returns an empty         *)
(* collection of Tests and raises no error.                                *)
(***************************************************************************)
C17_EmptyInputEmptyResult ==
    (steps = << >> /\ agg.pc # "start") =>
        /\ agg.pc = "done"
        /\ agg.tests = << >>
        /\ agg.error = << >>
        /\ Outcome(agg) = [failed |-> FALSE, tests |-> << >>, error |-> << >>]

\* The call returned for the empty list.
C17_Witness == steps = << >> /\ agg.pc = "done" /\ agg.tests = << >>

(***************************************************************************)
(* C18: for the 1-based attempt number n the geometric backoff waits       *)
(* BaseDelay * 2^(n-1) plus a jitter in [0, JitterLimit), so the first     *)
(* retry waits in [100, 200) ms, and the part without the jitter doubles   *)
(* from one backoff of a call to the next.                                 *)
(***************************************************************************)
Backoffs == SelectSeq(rt.log, LAMBDA entry : entry[1] = "backoff")

C18_GeometricDelay ==
    rt.strategy = "geometric" =>
        /\ \A k \in 1 .. Len(Backoffs) :
              LET n == Backoffs[k][2]
                  jitter == Backoffs[k][3]
                  ms == Backoffs[k][4]
              IN  /\ jitter >= 0 /\ jitter < JitterLimit
                  /\ ms = BaseDelay * Pow2(n - 1) + jitter
        /\ \A k \in 1 .. Len(Backoffs) - 1 :
              Backoffs[k + 1][4] - Backoffs[k + 1][3]
                  = 2 * (Backoffs[k][4] - Backoffs[k][3])

\* C18, amended: the k-th backoff of a call follows attempt k and waits
\* BaseDelay * 2^k plus a jitter in [0, JitterLimit) under the geometric
\* strategy, so the first retry waits in [200, 300) ms and the part without
\* the jitter doubles from one backoff to the next; under the linear
\* strategy every backoff waits BaseDelay plus the jitter, in [100, 200) ms.
C18_GeometricDelayFromAttempt ==
    \A k \in 1 .. Len(Backoffs) :
        LET n == Backoffs[k][2]
            jitter == Backoffs[k][3]
            ms == Backoffs[k][4]
        IN  /\ n = k
            /\ jitter >= 0 /\ jitter < JitterLimit
            /\ rt.strategy = "linear" => ms = BaseDelay + jitter
            /\ rt.strategy = "geometric" =>
                  /\ ms = BaseDelay * Pow2(n) + jitter
                  /\ k = 1 => (ms >= 2 * BaseDelay /\ ms < 3 * BaseDelay)
                  /\ k > 1 => ms - jitter = 2 * (Backoffs[k - 1][4] - Backoffs[k - 1][3])

\* A call under the geometric strategy that has waited four times.
C18_Witness ==
    /\ rt.strategy = "geometric"
    /\ Len(Backoffs) = MAX_ATTEMPTS - 1
    /\ rt.rpc = "attempt"

(***************************************************************************)
(* C19: within one retry call, for every failed attempt n < 5: the attempt *)
(* fails, then onFail (if supplied) is called with that failure, then the  *)
(* backoff strategy is evaluated with the argument n, and attempt n + 1    *)
(* starts only when at least that delay has passed; over a call whose      *)
(* attempts all fail the arguments are 1, 2, 3, 4 in that order.           *)
(***************************************************************************)
IsEntry(p, kind) == p \in 1 .. Len(rt.log) /\ rt.log[p][1] = kind

C19_OrderedPerFailedAttempt ==
    /\ \A p \in 1 .. Len(rt.log) :
          LET entry == rt.log[p] IN
          /\ (entry[1] = "rejected" /\ entry[2] < MAX_ATTEMPTS) =>
                LET n == entry[2]
                    q == IF rt.onFail = "absent" THEN p + 1 ELSE p + 2
                IN  /\ rt.onFail # "absent" => rt.log[p + 1] = <<"onFail", n, entry[3]>>
                    /\ rt.onFail # "throws" =>
                          /\ IsEntry(q, "backoff")
                          /\ rt.log[q][2] = n
                          /\ q < Len(rt.log) =>
                                /\ IsEntry(q + 1, "attempt")
                                /\ rt.log[q + 1][2] = n + 1
                                /\ rt.log[q + 1][3] >= rt.log[q][4]
          /\ (entry[1] = "attempt" /\ entry[2] > 1) =>
                /\ IsEntry(p - 1, "backoff")
                /\ rt.log[p - 1][2] = entry[2] - 1
                /\ entry[3] >= rt.log[p - 1][4]
          /\ entry[1] = "onFail" => rt.log[p - 1] = <<"rejected", entry[2], entry[3]>>
          /\ entry[1] = "backoff" =>
                \/ rt.log[p - 1] = <<"onFail", entry[2], Err(0, entry[2])>>
                \/ rt.onFail = "absent" /\ rt.log[p - 1] = <<"rejected", entry[2], Err(0, entry[2])>>
    /\ (rt.rpc = "threw" /\ rt.onFail # "throws") =>
          [k \in 1 .. Len(Backoffs) |-> Backoffs[k][2]] = <<1, 2, 3, 4>>
    /\ (rt.rpc = "attempt" /\ rt.currentAttempt > 1) => rt.waited >= rt.delay

\* A call with an onFail handler whose five attempts all failed.
C19_Witness ==
    /\ rt.rpc = "threw"
    /\ rt.onFail = "returns"
    /\ rt.outcome = Err(0, MAX_ATTEMPTS)
    /\ Len(Backoffs) = MAX_ATTEMPTS - 1

(***************************************************************************)
(* C20: concurrentWithRetry launches the tasks in ascending index order    *)
(* and each task at most once, and it never waits while a slot is free and *)
(* a task is pending: whenever it waits in Promise.race with a task not    *)
(* yet launched and fewer than concurrencyLimit tasks in flight, the       *)
(* callback that wakes it up is already queued.                            *)
(***************************************************************************)
Launched == {i \in Indices : task[i].launches > 0}

C20_LaunchOrder ==
    /\ \A i \in Indices : task[i].launches <= 1
    /\ Launched = {i \in Indices : i < taskIndex}
    /\ \A k, h \in 1 .. Len(activePromises) :
          k < h => activePromises[k] < activePromises[h]

C20_NoIdleWait ==
    (/\ pc = "race"
     /\ awaitState = "pending"
     /\ taskIndex < numTasks
     /\ Cardinality(InFlight) < concurrencyLimit) => MicrotaskPending

C20_LaunchesInOrderWithoutIdling ==
    /\ [](C20_LaunchOrder /\ C20_NoIdleWait)
    /\ [][\A i \in Indices :
             task'[i].launches # task[i].launches =>
                 /\ i = taskIndex
                 /\ taskIndex' = i + 1
                 /\ Len(activePromises) < concurrencyLimit
                 /\ \A j \in Indices : j # i => task'[j].launches = task[j].launches]_vars

\* The dispatcher has waited, a slot became free and a task is pending.
C20_Witness ==
    /\ pc = "loop"
    /\ concurrencyLimit >= 1
    /\ taskIndex >= concurrencyLimit
    /\ taskIndex < numTasks
    /\ Cardinality(InFlight) < concurrencyLimit
    /\ SlotFree

(***************************************************************************)
(* C21: after concurrentWithRetry has failed, the tasks already launched   *)
(* are not interrupted: each goes on until an attempt succeeds or its      *)
(* fifth attempt has failed; and no task is launched any more.             *)
(***************************************************************************)
RetryEnded(i) ==
    \/ task[i].rpc = "returned" /\ task[i].succeededAt = task[i].currentAttempt
    \/ task[i].rpc = "threw" /\ task[i].failed = MAX_ATTEMPTS

C21_FailureStopsLaunchesOnly ==
    /\ [][pc = "failed" =>
             /\ pc' = "failed"
             /\ taskIndex' = taskIndex
             /\ \A i \in Indices : task'[i].launches = task[i].launches]_vars
    /\ pc = "failed" ~> (\A i \in Indices : task[i].launches = 1 => RetryEnded(i))

\* The call has failed while a launched task is still retrying and another
\* task was never launched.
C21_Witness ==
    /\ pc = "failed"
    /\ taskIndex < numTasks
    /\ \E i \in Indices : task[i].rpc = "waiting" /\ task[i].failed >= 1

(***************************************************************************)
(* C22: among the step:start events of one test that create a Step, those  *)
(* that follow one another and share a groupId G form a group: the first   *)
(* of them gets no parentId and every following one gets the id of the     *)
(* first as parentId; a step:start without groupId gets no parentId.       *)
(* As stated: the groups are the maximal runs of adjacent events with the  *)
(* same groupId.                                                           *)
(***************************************************************************)
Created == 1 .. Len(agg.stepStack)
GroupOf(k) == CmdGroupId(agg.stepStack[k].event)
Grouped(k) == GroupOf(k) \notin {None, ""}
ParentOf(k) == StepOf(agg, agg.stepStack[k]).parentId
IdOf(k) == StepOf(agg, agg.stepStack[k]).id

\* The call returned and attributed every event to its only Test.
OneTestDone == agg.pc = "done" /\ Len(agg.tests) = 1

\* The first step of the run of adjacent steps with the group of step k.
RunStart(k) ==
    CHOOSE f \in 1 .. k :
        /\ \A j \in f .. k : GroupOf(j) = GroupOf(k)
        /\ f > 1 => GroupOf(f - 1) # GroupOf(k)

GroupedUpTo(k) == {j \in 1 .. k : Grouped(j)}

GroupOpener(k) ==
    CHOOSE f \in GroupedUpTo(k) :
        /\ \A j \in GroupedUpTo(k) : j >= f => GroupOf(j) = GroupOf(k)
        /\ \A j \in GroupedUpTo(k) : j < f => \E h \in GroupedUpTo(k) :
                                                  j <= h /\ h < f /\ GroupOf(h) # GroupOf(k)

Sanitized(args) == \A k \in 1 .. Len(args) : IsObject(args[k]) => args[k] = ArgEmpty

C23_ArgsSanitized ==
    agg.pc \in {"walk", "done"} =>
        \A t \in 1 .. Len(agg.tests) :
            \A k \in 1 .. Len(agg.tests[t].steps) : Sanitized(agg.tests[t].steps[k].args)

(***************************************************************************)
(* C24: the relativeStartTime of every Step is the timestamp of its        *)
(* step:start event minus the start time of the Test that owns it, and it  *)
(* is not negative, also when the step:start event is earlier than the     *)
(* test:start event of its test.                                           *)
(***************************************************************************)
C24_StepStartRelativeAndNonNegative ==
    agg.pc \in {"walk", "done"} =>
        \A k \in 1 .. Len(agg.stepStack) :
            LET item == agg.stepStack[k]
                test == agg.tests[item.test]
            IN  /\ StepOf(agg, item).relativeStartTime =
                       toTime(item.event.timestamp)
                           - (test.relativeStartTime + agg.firstTimestamp)
                /\ StepOf(agg, item).relativeStartTime >= 0

(***************************************************************************)
(* C25: a step:end event of an afterEach hook whose id is not skipped is   *)
(* left out of end processing: it changes no Test and no Step, so a Step   *)
(* started in the hook never gets a duration or an error, and it does not  *)
(* raise the mismatched-step failure, with or without a matching start.    *)
(***************************************************************************)
InAfterEachHook(step) == Len(step.test) >= 1 /\ step.test[1] = AFTER_EACH_HOOK

C25_AfterEachEndLeftOut ==
    /\ [](agg.pc \in {"walk", "done"} =>
            \A k \in 1 .. Len(agg.stepStack) :
                InAfterEachHook(agg.stepStack[k].event) =>
                    /\ StepOf(agg, agg.stepStack[k]).duration = << >>
                    /\ StepOf(agg, agg.stepStack[k]).error = None)
    /\ [][(/\ agg.pc = "walk"
            /\ Current.event = "step:end"
            /\ InAfterEachHook(Current)
            /\ ~ Includes(agg.skippedStepIds, CmdId(Current))) =>
              /\ agg'.tests = agg.tests
              /\ agg'.stepStack = agg.stepStack
              /\ ~ FailsWith(agg', "Mismatched step event")]_vars

\* The call returned after the step:end of a Step started in the hook.
C25_Witness ==
    /\ agg.pc = "done"
    /\ \E k \in 1 .. Len(agg.stepStack) :
          /\ InAfterEachHook(agg.stepStack[k].event)
          /\ \E j \in 1 .. Len(agg.sortedSteps) :
                /\ agg.sortedSteps[j].event = "step:end"
                /\ agg.sortedSteps[j].test = agg.stepStack[k].event.test
                /\ CmdId(agg.sortedSteps[j]) = CmdId(agg.stepStack[k].event)
                /\ agg.sortedSteps[j].error # None
                /\ toTime(agg.sortedSteps[j].timestamp)
                       > toTime(agg.stepStack[k].event.timestamp)

(***************************************************************************)
(* C26: a step:start event with a commandId that is not skipped creates    *)
(* its own Step in its Test; when the Test already has a Step whose id is  *)
(* the commandId, the id of the new Step is appended to the assertIds of   *)
(* that Step (the first such Step); when it has none, no assertIds change. *)
(* No other Step or Test changes and no error is raised.                   *)
(***************************************************************************)
AtAssertionStart ==
    /\ Walking("step:start")
    /\ HasCmd(Current)
    /\ Cmd(Current).commandId \notin {None, ""}
    /\ ~ shouldSkipStep(Current, agg.skippedStepIds)
    /\ TestForStep(agg.tests, Current) # 0

\* The Steps with the given id among steps.
WithId(stepsOfTest, id) == {k \in 1 .. Len(stepsOfTest) : stepsOfTest[k].id = id}

LoggingDisabled(step) ==
    /\ HasCmd(step)
    /\ Cmd(step).args # << >>
    /\ Cmd(step).args[Len(Cmd(step).args)] = ArgNoLog

Dropped ==
    /\ agg'.pc # "error"
    /\ agg'.tests = agg.tests
    /\ agg'.stepStack = agg.stepStack

\* The ids and groupIds of the step:start events with logging disabled that
\* have been processed.
Unlogged ==
    UNION {{CmdId(agg.sortedSteps[k]), CmdGroupId(agg.sortedSteps[k])} :
              k \in {j \in 1 .. agg.i - 1 :
                        /\ agg.sortedSteps[j].event = "step:start"
                        /\ LoggingDisabled(agg.sortedSteps[j])}} \ {None, ""}

Settled == pc \in {"returned", "failed"}

C28_CallSettles == concurrencyLimit >= 1 => <>Settled

\* A call that returned although attempts of several tasks failed.
C28_Witness ==
    /\ pc = "returned"
    /\ concurrencyLimit >= 1
    /\ numTasks >= 2
    /\ \A i \in Indices : task[i].failed >= 1 /\ task[i].rpc = "returned"

(***************************************************************************)
(* C29: called with a concurrencyLimit of 0 or less and at least one task, *)
(* concurrentWithRetry launches no task and never settles: it waits for    *)
(* ever in Promise.race of no promise.  Called with no task, it returns    *)
(* the empty results without waiting for anything, whatever the limit.     *)
(***************************************************************************)
C29_NoSlotNoTask ==
    /\ []((concurrencyLimit <= 0 /\ numTasks >= 1) =>
             /\ ~ Settled
             /\ taskIndex = 0
             /\ activePromises = << >>
             /\ \A i \in Indices : task[i].launches = 0 /\ task[i].rpc = "idle"
             /\ pc = "race" => (awaited = {} /\ awaitState = "pending"))
    /\ (concurrencyLimit <= 0 /\ numTasks >= 1) => <>[](pc = "race")
    /\ [](numTasks = 0 =>
             /\ pc \in {"loop", "all", "returned"}
             /\ results = << >>
             /\ pc = "all" => awaitState = "fulfilled")
    /\ numTasks = 0 => <>(pc = "returned")

\* The call waits with tasks to launch and no slot to launch them in.
C29_Witness ==
    /\ concurrencyLimit <= 0
    /\ numTasks >= 1
    /\ pc = "race"
    /\ awaited = {}

(***************************************************************************)
(* C30: in every Test of the output, a parentId that is set is the id of a *)
(* Step of the same Test that was created earlier, from an event that is   *)
(* not later in timestamp order.  When the current Test changes, the       *)
(* active group is cleared: after the event it is empty or the group that  *)
(* this very event opened.                                                 *)
(***************************************************************************)
ParentIsEarlierSibling(stepsOfTest, k) ==
    \E j \in 1 .. k - 1 :
        /\ stepsOfTest[j].id = stepsOfTest[k].parentId
        /\ stepsOfTest[j].relativeStartTime <= stepsOfTest[k].relativeStartTime

ParentsInSameTest ==
    agg.pc \in {"walk", "done"} =>
        \A t \in 1 .. Len(agg.tests) :
            \A k \in 1 .. Len(agg.tests[t].steps) :
                agg.tests[t].steps[k].parentId # None =>
                    ParentIsEarlierSibling(agg.tests[t].steps, k)

GroupClearedOnTestChange ==
    (agg.pc = "walk" /\ agg'.pc \in {"walk", "done"} /\ agg'.currentTest # agg.currentTest) =>
        \/ agg'.activeGroup = << >>
        \/ /\ Current.event = "step:start"
           /\ agg'.activeGroup[1].parentId = CmdId(Current)

C30_ParentInSameTest == []ParentsInSameTest /\ [][GroupClearedOnTestChange]_vars

\* Two Tests with a step of the same group each: the step of the second
\* Test opens its own group.
C30_Witness ==
    /\ agg.pc = "done"
    /\ Len(agg.tests) = 2
    /\ \A t \in 1 .. 2 :
          /\ Len(agg.tests[t].steps) = 1
          /\ agg.tests[t].steps[1].parentId = None
    /\ Len(agg.stepStack) = 2
    /\ GroupOf(1) = GroupOf(2)
    /\ Grouped(1)

(***************************************************************************)
(* C31: when an event of the input, of any kind, names a test path for     *)
(* which the input has no test:start event, the call fails with            *)
(* "currentTest does not exist" and returns no Tests.  Events of an        *)
(* afterEach hook, whose path begins with the hook title, are left out.    *)
(***************************************************************************)
NamesUnstartedTest(e) ==
    /\ ~ IsAfterEach(e)
    /\ ~ \E j \in 1 .. Len(steps) :
            steps[j].event = "test:start" /\ steps[j].test = e.test

C31_UnstartedTestFails ==
    (Finished /\ \E k \in 1 .. Len(steps) : NamesUnstartedTest(steps[k])) =>
        FailsWith(agg, "currentTest does not exist")

(***************************************************************************)
(* C32: for an event that is neither task nor a single-handler event, the  *)
(* wrapped on registers with Cypress exactly once, the dispatcher, however *)
(* many handlers are registered.  When the event fires, every registered   *)
(* handler is called, in registration order, each awaited to completion    *)
(* before the next is called.  For before:browser:launch each handler gets *)
(* what the handler before it returned, or what that one got when it       *)
(* returned nothing (undefined or null), and the last value is the result. *)
(* As stated: every handler registered when the event fired has been       *)
(* called once the dispatcher has settled.                                 *)
(***************************************************************************)
MultiHandlerEvents == EventNames \ ({"task"} \cup SingleHandlerKeys)

BaseOf(e) == {k \in 1 .. Len(plug.base) : plug.base[k][1] = e}

RegisteredOnce ==
    \A e \in MultiHandlerEvents :
        IF plug.handlers[e] = << >> THEN BaseOf(e) = {}
        ELSE /\ Cardinality(BaseOf(e)) = 1
             /\ \A k \in BaseOf(e) : plug.base[k][2] = Dispatcher

\* The handlers called so far are the first of the list, one at a time.
CalledInOrder(d, hs) ==
    /\ Len(d.ran) <= Len(hs)
    /\ \A k \in 1 .. Len(d.ran) :
          /\ d.ran[k].h = hs[k]
          /\ k < Len(d.ran) => d.ran[k].output \in Returns
          /\ d.ran[k].output = Pending <=> k \in d.inFlight
    /\ Cardinality(d.inFlight) <= 1

\* What each handler is called with.
InputsChained(d) ==
    \A k \in 1 .. Len(d.ran) :
        d.ran[k].input =
            IF d.e = BeforeBrowserLaunch /\ k > 1
            THEN NullishCoalesce(d.ran[k - 1].output, d.ran[k - 1].input)
            ELSE d.args

LastValue(d) ==
    LET last == d.ran[Len(d.ran)] IN
    IF d.e = BeforeBrowserLaunch THEN NullishCoalesce(last.output, last.input)
    ELSE Undefined

\* Every handler registered when the event fired has been called.
AllCalled(d) == Len(d.ran) >= d.atFire

\* The dispatcher returned: every handler called has returned, and the
\* result is the last value.
AllReturned(d) ==
    d.pc = "returned" =>
        /\ \A k \in 1 .. Len(d.ran) : d.ran[k].output \in Returns
        /\ d.result = LastValue(d)

C32_EveryHandlerRuns ==
    /\ RegisteredOnce
    /\ plug.d.pc # "idle" =>
          /\ CalledInOrder(plug.d, plug.handlers[plug.d.e])
          /\ InputsChained(plug.d)
          /\ AllReturned(plug.d)
          /\ plug.d.pc \in {"returned", "rejected"} => AllCalled(plug.d)

\* C32, amended: the handlers run as stated as long as none of them throws
\* or rejects; the first that does ends the dispatch, which rejects, and
\* the handlers registered after it are not called.
C32_HandlersRunUntilOneThrows ==
    /\ RegisteredOnce
    /\ plug.d.pc # "idle" =>
          /\ CalledInOrder(plug.d, plug.handlers[plug.d.e])
          /\ InputsChained(plug.d)
          /\ AllReturned(plug.d)
          /\ plug.d.pc = "returned" => AllCalled(plug.d)
          /\ plug.d.pc = "rejected" =>
                /\ plug.d.ran[Len(plug.d.ran)].output = Threw
                /\ plug.d.result = Threw

\* before:browser:launch returned after three handlers, the second of which
\* returned nothing and so passed on the options of the first.
C32_Witness ==
    /\ plug.d.pc = "returned"
    /\ plug.d.e = BeforeBrowserLaunch
    /\ Len(plug.d.ran) = 3
    /\ plug.d.ran[1].output = "optionsA"
    /\ plug.d.ran[2].output = Undefined
    /\ plug.d.ran[3].input = "optionsA"
    /\ plug.d.ran[3].output = "optionsB"
    /\ plug.d.result = "optionsB"
    /\ Cardinality(BaseOf(BeforeBrowserLaunch)) = 1

(***************************************************************************)
(* C33: the throw of "ShouldBeUnreachable" after the loop of retry is      *)
(* never executed.  A retry call ends by returning the value of the        *)
(* attempt that succeeded, by throwing the error of the attempt that       *)
(* failed as the fifth, or by letting through what onFail threw; the       *)
(* attempt counter never exceeds MAX_ATTEMPTS.                             *)
(***************************************************************************)
C33_FallbackUnreachable ==
    /\ rt.outcome # Unreachable
    /\ rt.currentAttempt <= MAX_ATTEMPTS
    /\ rt.calls = rt.currentAttempt
    /\ rt.rpc = "returned" => rt.outcome = Val(0, rt.currentAttempt)
    /\ rt.rpc = "threw" =>
          IF rt.onFail = "throws"
          THEN rt.outcome = OnFailError
          ELSE rt.currentAttempt = MAX_ATTEMPTS /\ rt.outcome = Err(0, MAX_ATTEMPTS)

\* The call returned the value of the last attempt the loop allows.
C33_Witness ==
    /\ rt.rpc = "returned"
    /\ rt.currentAttempt = MAX_ATTEMPTS
    /\ rt.outcome = Val(0, MAX_ATTEMPTS)

====
